---- MODULE Spec2Model ----
(***************************************************************************)
(* KernelDMD (src/DSA/kerneldmd.py): delay embedding of trajectories,       *)
(* fitting through the parent NystroemKernel and prediction.               *)
(*                                                                         *)
(* Arrays are records [kind, ndim, val]: val is the nested sequence of the  *)
(* array's entries (1-based here, 0-based in the source).  Entries are      *)
(* symbolic: an observed entry carries the place it was measured at, a      *)
(* predicted entry carries the window the learned operator was applied to.  *)
(***************************************************************************)
EXTENDS Integers, Sequences, FiniteSets, TLC

MaxDelays == 2      \* n_delays ranges over 1 .. MaxDelays
MaxInterval == 2    \* delay_interval ranges over 1 .. MaxInterval
MaxT == 4           \* time points of a trajectory
MaxN == 2           \* observed dimensions
MaxK == 2           \* trajectories of an array or list

VARIABLES n_delays, delay_interval, init_data, self_data, data_fit, call, ret

vars == <<n_delays, delay_interval, init_data, self_data, data_fit, call, ret>>

----------------------------------------------------------------------------
(* Entries and arrays *)

Obs(name, k, t, n) == [tag |-> "obs", src |-> <<name, k, t, n>>, of |-> <<>>]

\* an entry of np.zeros
Zero == [tag |-> "zero", src |-> <<"", 0, 0, 0>>, of |-> <<>>]

\* Python's None, where an array or object is expected
NoneObj == [kind |-> "None", ndim |-> 0, val |-> <<>>]

NdArray(ndim, val) == [kind |-> "ndarray", ndim |-> ndim, val |-> val]

Traj(name, k, T, N) == [t \in 1 .. T |-> [n \in 1 .. N |-> Obs(name, k, t, n)]]

\* a T x N array or tensor
Arr2(kind, name, T, N) == [kind |-> kind, ndim |-> 2, val |-> Traj(name, 1, T, N)]

\* a K x T x N array or tensor
Arr3(kind, name, K, T, N) ==
    [kind |-> kind, ndim |-> 3, val |-> [k \in 1 .. K |-> Traj(name, k, T, N)]]

\* a list of K arrays, the k-th of shape (T + (k-1)*step) x N
ListOf(name, K, T, N, step) ==
    [kind |-> "list", ndim |-> 0,
     val |-> [k \in 1 .. K |-> Traj(name, k, T + (k - 1) * step, N)]]

\* the shape of an ndarray
Shape(a) ==
    CASE a.ndim = 0 -> <<>>
      [] a.ndim = 1 -> <<Len(a.val)>>
      [] a.ndim = 2 -> <<Len(a.val), Len(a.val[1])>>
      [] OTHER -> <<Len(a.val), Len(a.val[1]), Len(a.val[1][1])>>

Arrays(name) ==
    {Arr2(kind, name, T, N) : kind \in {"ndarray", "tensor"}, T \in 1 .. MaxT, N \in 1 .. MaxN}
    \cup {Arr3(kind[1], name, kind[2], T, N) :
             kind \in {"ndarray", "tensor"} \X (1 .. MaxK), T \in 1 .. MaxT, N \in 1 .. MaxN}
    \cup {ListOf(name, ks[1], T, N, ks[2]) :
             ks \in {x \in (1 .. MaxK) \X {0, 1} : x[2] = 0 \/ x[1] > 1},
             T \in 1 .. MaxT - 1, N \in 1 .. MaxN}

\* what the methods are called with
Inputs == Arrays("call")

\* what the constructor is given
CtorInputs ==
    {a \in Arrays("ctor") : a.kind = "ndarray" /\ a.ndim = 2 /\ Shape(a) = <<MaxT, MaxN>>}

\* what fit is given when data is passed
FitInputs == {a \in Inputs : a.ndim = 2 /\ Len(a.val) = MaxT}

\* an optional argument: <<>> is None, <<x>> is x
NoneArg == <<>>

Reseeds == {NoneArg, <<1>>}

----------------------------------------------------------------------------
(* The library calls made by the class (kooplearn, numpy) *)

\* np.lib.stride_tricks.sliding_window_view along axis 0: every run of w
\* consecutive time points, in increasing start time
SlidingWindowView(traj, w) ==
    [s \in 1 .. (Len(traj) - w + 1) |-> SubSeq(traj, s, s + w - 1)]

\* window[::lag]
Stride(window, lag) ==
    [j \in 1 .. ((Len(window) - 1) \div lag + 1) |-> window[1 + (j - 1) * lag]]

\* windows[:, ::lag]
StrideAll(windows, lag) == [i \in 1 .. Len(windows) |-> Stride(windows[i], lag)]

\* traj_to_contexts(trajectory, context_window_len, time_lag): a 1-dimensional
\* trajectory is a series of scalars (trajectory[:, None]); a trajectory
\* shorter than one window raises ValueError
TrajToContexts(item, context_len, time_lag) ==
    LET traj == IF item.ndim = 1
                THEN [t \in 1 .. Len(item.val) |-> <<item.val[t]>>]
                ELSE item.val
        window_shape == 1 + (context_len - 1) * time_lag
    IN  IF window_shape > Len(traj)
        THEN [exc |-> "ValueError", data |-> <<>>]
        ELSE [exc |-> "", data |-> StrideAll(SlidingWindowView(traj, window_shape), time_lag)]

\* the context dataset object traj_to_contexts returns, by its .data
Contexts(data) == [kind |-> "contexts", ndim |-> 3, val |-> data]

\* the learned operator applied to one lookback window: the predicted point
Apply(window) ==
    [n \in 1 .. Len(window[1]) |->
        [tag |-> "pred", src |-> <<"", 0, 0, n>>, of |-> window]]

\* NystroemKernel.predict(data), t = 1: for every context, the operator applied
\* to its lookback window, the first lookback_len points of the context.
\* Not fitted, or fitted on another dimension: an exception.
NystroemPredict(fitted, data, lookback_len) ==
    IF fitted = NoneObj
    THEN [exc |-> "NotFittedError", pred |-> <<>>]
    ELSE IF Len(fitted.val[1][1]) # Len(data.val[1][1])
    THEN [exc |-> "ValueError", pred |-> <<>>]
    ELSE [exc |-> "",
          pred |-> [i \in 1 .. Len(data.val) |->
                       Apply(SubSeq(data.val[i], 1, lookback_len))]]

\* the entries of a sequence of points, in row-major order
RECURSIVE Ravel(_)
Ravel(points) ==
    IF points = <<>> THEN <<>> ELSE Head(points) \o Ravel(Tail(points))

\* a flat array of entries as a K x T x N array: ValueError unless the sizes agree
ReshapeFlat(flat, K, T, N) ==
    IF Len(flat) # K * T * N
    THEN [exc |-> "ValueError", val |-> <<>>]
    ELSE [exc |-> "",
          val |-> [k \in 1 .. K |-> [t \in 1 .. T |-> [n \in 1 .. N |->
                      flat[((k - 1) * T + (t - 1)) * N + n]]]]]

\* pred.reshape(K, T, N) of an array of points
Reshape(points, K, T, N) == ReshapeFlat(Ravel(points), K, T, N)

\* a.squeeze() of a 3-dimensional array: every axis of length 1 is dropped
Squeeze(v) ==
    LET K == Len(v)
        T == Len(v[1])
        N == Len(v[1][1])
        a == IF N = 1 THEN [k \in 1 .. K |-> [t \in 1 .. T |-> v[k][t][1]]] ELSE v
        b == IF T = 1 THEN [k \in 1 .. K |-> a[k][1]] ELSE a
        c == IF K = 1 THEN b[1] ELSE b
        ones == (IF N = 1 THEN 1 ELSE 0) + (IF T = 1 THEN 1 ELSE 0) + (IF K = 1 THEN 1 ELSE 0)
    IN  NdArray(3 - ones, c)

----------------------------------------------------------------------------
(* KernelDMD *)

context_window_len == n_delays + 1

NormalizeTrajsNoNewaxis(trajs) ==
    IF trajs.kind = "tensor" THEN NdArray(trajs.ndim, trajs.val) ELSE trajs

\* compute_hankel, lines 76-80: a tensor becomes an array, a 2-dimensional
\* array becomes one trajectory
NormalizeTrajs(trajs) ==
    LET a == IF trajs.kind = "tensor" THEN NdArray(trajs.ndim, trajs.val) ELSE trajs
    IN  IF a.kind = "ndarray" /\ a.ndim = 2 THEN NdArray(3, <<a.val>>) ELSE a

\* trajs[i]
Item(trajs, i) ==
    [ndim |-> IF trajs.kind = "list" THEN 2 ELSE trajs.ndim - 1, val |-> trajs.val[i]]

RECURSIVE HankelLoopPrepend(_, _, _, _, _)
HankelLoopPrepend(trajs, i, acc, context_len, time_lag) ==
    IF acc.exc # "" \/ i > Len(trajs.val)
    THEN acc
    ELSE LET new_traj == TrajToContexts(Item(trajs, i), context_len, time_lag)
         IN  HankelLoopPrepend(trajs, i + 1,
                               IF new_traj.exc # "" THEN new_traj
                               ELSE [exc |-> "", data |-> new_traj.data \o acc.data],
                               context_len, time_lag)

\* compute_hankel, lines 82-90: the contexts of trajs[0], then those of each
\* further trajectory appended; an exception of traj_to_contexts ends the call
RECURSIVE HankelLoop(_, _, _, _, _)
HankelLoop(trajs, i, acc, context_len, time_lag) ==
    IF acc.exc # "" \/ i > Len(trajs.val)
    THEN acc
    ELSE LET new_traj == TrajToContexts(Item(trajs, i), context_len, time_lag)
         IN  HankelLoop(trajs, i + 1,
                        IF new_traj.exc # "" THEN new_traj
                        ELSE [exc |-> "", data |-> acc.data \o new_traj.data],
                        context_len, time_lag)

\* compute_hankel(trajs): the exception raised ("" when none) and the new
\* value of self.data.  A context dataset is no trajectory array: the library
\* rejects it.
ComputeHankelOn(trajs, old, context_len, time_lag) ==
    IF trajs.kind = "contexts"
    THEN [exc |-> "TypeError", obj |-> old]
    ELSE LET a == NormalizeTrajs(trajs)
             first == TrajToContexts(Item(a, 1), context_len, time_lag)
             all == HankelLoop(a, 1 + 1, first, context_len, time_lag)  \* range(1, len(trajs))
         IN  IF all.exc # ""
             THEN [exc |-> all.exc, obj |-> old]
             ELSE [exc |-> "", obj |-> Contexts(all.data)]

\* predict, lines 139-146: a tensor or a list becomes an array, a
\* 2-dimensional array becomes one trajectory.  np.array of arrays of
\* different lengths is no K x T x N array: np.array itself or the indexing of
\* line 149 raises, by the numpy version, before self is assigned to.
NormalizeTest(test_data) ==
    LET a == IF test_data.kind = "tensor" THEN NdArray(test_data.ndim, test_data.val)
             ELSE test_data
        b == IF a.kind # "list" THEN a
             ELSE IF \A k \in 1 .. Len(a.val) : Len(a.val[k]) = Len(a.val[1])
                  THEN NdArray(3, a.val)
                  ELSE NdArray(1, a.val)
    IN  IF b.ndim = 2 THEN NdArray(3, <<b.val>>) ELSE b

PredDataInitShort(v, nd) ==
    [k \in 1 .. Len(v) |-> [t \in 1 .. Len(v[k]) |->
        IF t <= nd - 1 THEN v[k][t] ELSE [n \in 1 .. Len(v[k][t]) |-> Zero]]]

\* predict, lines 148-149: zeros of the shape of test_data, with the first
\* n_delays time steps copied from test_data
PredDataInit(v, nd) ==
    [k \in 1 .. Len(v) |-> [t \in 1 .. Len(v[k]) |->
        IF t <= nd THEN v[k][t] ELSE [n \in 1 .. Len(v[k][t]) |-> Zero]]]

HankelArgIsPredData(test_data, pred_data) == pred_data

\* predict, line 152: what predict delay-embeds
HankelArgOfPredict(test_data, pred_data) == test_data

\* predict, line 156: pred_data[:, n_delays:] = pred
PredDataFill(pred_data, pred, nd) ==
    [k \in 1 .. Len(pred_data) |-> [t \in 1 .. Len(pred_data[k]) |->
        IF t <= nd THEN pred_data[k][t] ELSE pred[k][t - nd]]]

\* predict, line 158: what is returned
PredictReturn(pred_data, isdim2) == Squeeze(pred_data)

\* predict, lines 134-137: any reseed but None is refused
ReseedOnlyAboveOne(reseed) == reseed # NoneArg /\ reseed # <<1>>

ReseedRefused(reseed) == reseed # NoneArg

\* predict(test_data, reseed): the exception raised ("" when none), the array
\* returned and the new value of self.data.  With test_data omitted after
\* compute_hankel ran, test_data is the context dataset, which is no array.
PredictOn(test, reseed, old, fitted, nd, di) ==
    LET given == IF test = NoneObj THEN old ELSE test
        unchanged(e) == [exc |-> e, val |-> NoneObj, obj |-> old]
    IN  IF ReseedRefused(reseed)
        THEN unchanged("NotImplementedError")
        ELSE IF given.kind = "contexts"
        THEN unchanged("TypeError")
        ELSE LET test_data == NormalizeTest(given)
             IN  IF test_data.ndim # 3
                 THEN unchanged("IndexError")
                 ELSE
    LET v == test_data.val
        K == Len(v)
        T == Len(v[1])
        N == Len(v[1][1])
        pred_data == PredDataInit(v, nd)
        h == ComputeHankelOn(HankelArgOfPredict(test_data, NdArray(3, pred_data)),
                             old, nd + 1, di)
        raised(e) == [exc |-> e, val |-> NoneObj, obj |-> h.obj]
    IN  IF h.exc # ""
        THEN raised(h.exc)
        ELSE LET p == NystroemPredict(fitted, h.obj, nd)
             IN  IF p.exc # ""
                 THEN raised(p.exc)
                 ELSE LET r == Reshape(p.pred, K, T - nd, N)
                      IN  IF r.exc # ""
                          THEN raised(r.exc)
                          ELSE [exc |-> "",
                                val |-> PredictReturn(PredDataFill(pred_data, r.val, nd),
                                                      given.ndim = 2),
                                obj |-> h.obj]

----------------------------------------------------------------------------
(* The object and the calls made on it *)

\* the length of the shortest of some trajectories
RECURSIVE MinLen(_)
MinLen(trajs) ==
    IF Len(trajs) = 1 THEN Len(trajs[1])
    ELSE LET m == MinLen(Tail(trajs))
         IN  IF Len(trajs[1]) < m THEN Len(trajs[1]) ELSE m

\* The call just made: the method, whether an array was passed, for
\* compute_hankel the length of the shortest trajectory passed, the array
\* (kept when the call returned, NoneObj otherwise), the reseed argument and,
\* for fit, what fit handed to compute_hankel.
Call(op, arg, reseed, exc, fit_on) ==
    [op |-> op, has_arg |-> arg # NoneObj,
     min_len |-> IF op # "compute_hankel" THEN 0
                 ELSE MinLen(IF arg.ndim = 2 THEN <<arg.val>> ELSE arg.val),
     arg |-> IF exc = "" THEN arg ELSE NoneObj, reseed |-> reseed,
     fit_on |-> fit_on]

\* how the call ended: the exception raised ("" when none), the value returned
Ret(exc, val) == [exc |-> exc, val |-> val]

\* KernelDMD(data, n_delays, delay_interval = ...)
Init ==
    /\ n_delays \in 1 .. MaxDelays
    /\ delay_interval \in 1 .. MaxInterval
    /\ init_data \in CtorInputs
    /\ self_data = init_data
    /\ data_fit = NoneObj
    /\ call = Call("__init__", init_data, NoneArg, "", NoneObj)
    /\ ret = Ret("", NoneObj)

\* fit(data): compute_hankel(data or self.data), then the parent's fit on self.data
FitOn(data) ==
    LET d == IF data = NoneObj THEN self_data ELSE data
    IN  \E h \in {ComputeHankelOn(d, self_data, context_window_len, delay_interval)} :
            /\ call' = Call("fit", data, NoneArg, h.exc, d)
            /\ self_data' = h.obj
            /\ data_fit' = IF h.exc = "" THEN h.obj ELSE data_fit
            /\ ret' = Ret(h.exc, NoneObj)
            /\ UNCHANGED <<n_delays, delay_interval, init_data>>

Fit == \E data \in FitInputs : FitOn(data)

FitNone == FitOn(NoneObj)

\* compute_hankel(trajs)
ComputeHankel ==
    \E trajs \in Inputs :
        \E h \in {ComputeHankelOn(trajs, self_data, context_window_len, delay_interval)} :
            /\ call' = Call("compute_hankel", trajs, NoneArg, h.exc, NoneObj)
            /\ self_data' = h.obj
            /\ ret' = Ret(h.exc, NoneObj)
            /\ UNCHANGED <<n_delays, delay_interval, init_data, data_fit>>

\* predict(test_data, reseed)
Predict ==
    \E test \in Inputs \cup {NoneObj}, reseed \in Reseeds :
        \E p \in {PredictOn(test, reseed, self_data, data_fit, n_delays, delay_interval)} :
            /\ call' = Call("predict", test, reseed, p.exc, NoneObj)
            /\ self_data' = p.obj
            /\ ret' = Ret(p.exc, p.val)
            /\ UNCHANGED <<n_delays, delay_interval, init_data, data_fit>>

Next == Fit \/ FitNone \/ ComputeHankel \/ Predict

Spec == Init /\ [][Next]_vars

----------------------------------------------------------------------------
(* What the claims speak about *)

PredictReturned == call.op = "predict" /\ ret.exc = "" /\ call.arg # NoneObj

\* the trajectories of an argument: a 2-dimensional array is one trajectory
TrajsOf(arg) == IF arg.ndim = 2 THEN <<arg.val>> ELSE arg.val

\* the point of trajectory k at time step t (1-based) of the array predict
\* returned, the axes squeeze dropped put back from the argument's sizes
RetPoint(k, t) ==
    LET trajs == TrajsOf(call.arg)
        K == Len(trajs)
        T == Len(trajs[1])
        N == Len(trajs[1][1])
        b == IF K = 1 THEN <<ret.val.val>> ELSE ret.val.val
        a == IF T = 1 THEN <<b[k]>> ELSE b[k]
    IN  IF N = 1 THEN <<a[t]>> ELSE a[t]

Min(x, y) == IF x < y THEN x ELSE y

\* C1: for a T x N or K x T x N array or tensor test_data, the array predict
\* returns has the shape of test_data.
C1_SameShape ==
    (PredictReturned /\ call.arg.kind \in {"ndarray", "tensor"})
        => Shape(ret.val) = Shape(call.arg)

C3_FitNoneUsesInitData ==
    (call.op = "fit" /\ ~call.has_arg) => call.fit_on = init_data

\* C4 as claimed: the value predicted at a time step t > n_delays (0-based) is
\* the operator applied to the model's own values at the n_delays steps before.
C4_Rollout ==
    PredictReturned =>
        \A k \in 1 .. Len(TrajsOf(call.arg)) :
            \A t \in n_delays + 2 .. Len(TrajsOf(call.arg)[k]) :
                RetPoint(k, t) = Apply([j \in 1 .. n_delays |-> RetPoint(k, t - n_delays + j - 1)])

\* C4 as amended: every predicted value, at any time step t >= n_delays
\* (0-based), is one application of the operator to the n_delays points of
\* test_data that end at t - 1; earlier predictions are never fed back.
C4_OneStepFromTestData ==
    PredictReturned =>
        \A k \in 1 .. Len(TrajsOf(call.arg)) :
            \A t \in n_delays + 1 .. Len(TrajsOf(call.arg)[k]) :
                RetPoint(k, t) = Apply(SubSeq(TrajsOf(call.arg)[k], t - n_delays, t - 1))

C4_Witness ==
    /\ PredictReturned
    /\ Len(TrajsOf(call.arg)[1]) >= n_delays + 2
    /\ RetPoint(1, n_delays + 2) =
           Apply(SubSeq(TrajsOf(call.arg)[1], 2, n_delays + 1))
    /\ RetPoint(1, n_delays + 2) #
           Apply([j \in 1 .. n_delays |-> RetPoint(1, j + 1)])

\* the number of windows of the trajectories before the i-th
RECURSIVE WindowsBefore(_, _)
WindowsBefore(trajs, i) ==
    IF i = 1 THEN 0
    ELSE WindowsBefore(trajs, i - 1) + Len(trajs[i - 1]) - n_delays * delay_interval

\* C5: compute_hankel on a list or a K x T x N array stores in self.data, for
\* each trajectory in order, its T_i - n_delays * delay_interval windows in
\* increasing start time, each of n_delays + 1 points of that trajectory
\* spaced delay_interval apart.
C5_HankelWindows ==
    /\ (call.op = "compute_hankel" /\ call.min_len > n_delays * delay_interval)
         => ret.exc = ""
    /\ (call.op = "compute_hankel" /\ ret.exc = ""
            /\ (call.arg.kind = "list" \/ call.arg.ndim = 3))
       => LET trajs == call.arg.val
          IN
           /\ self_data.kind = "contexts"
           /\ Len(self_data.val) = WindowsBefore(trajs, Len(trajs) + 1)
           /\ \A i \in 1 .. Len(trajs) :
                \A s \in 1 .. Len(trajs[i]) - n_delays * delay_interval :
                    self_data.val[WindowsBefore(trajs, i) + s] =
                        [j \in 1 .. n_delays + 1 |-> trajs[i][s + (j - 1) * delay_interval]]

C5_Witness ==
    /\ call.op = "compute_hankel" /\ ret.exc = ""
    /\ call.arg.kind = "list"
    /\ Len(call.arg.val) = 2
    /\ Len(call.arg.val[1]) # Len(call.arg.val[2])
    /\ delay_interval = 2
    /\ Len(self_data.val) = 3
    /\ self_data.val[3] = <<call.arg.val[2][2], call.arg.val[2][4]>>

\* C6: predict with any reseed but None raises NotImplementedError and leaves
\* self.data and the fitted model as they were.
C6_ReseedRaisesFirst ==
    [][(call'.op = "predict" /\ call'.reseed # NoneArg)
          => (/\ ret'.exc = "NotImplementedError"
              /\ self_data' = self_data
              /\ data_fit' = data_fit)]_vars

C6_Witness ==
    /\ call.op = "predict"
    /\ call.reseed = <<1>>
    /\ call.has_arg
    /\ ret.exc = "NotImplementedError"
    /\ data_fit # NoneObj
    /\ self_data = data_fit

\* C7: compute_hankel (and so fit) on a T x N array stores what it stores for
\* the 1 x T x N array of that trajectory, and on a tensor what it stores for
\* the array of the same values.
C7_InputNormalized ==
    (call.op \in {"compute_hankel", "fit"} /\ ret.exc = "" /\ call.arg # NoneObj
        /\ (call.arg.ndim = 2 \/ call.arg.kind = "tensor"))
    => self_data = ComputeHankelOn(NdArray(3, TrajsOf(call.arg)), self_data,
                                   context_window_len, delay_interval).obj

C7_Witness ==
    /\ call.op = "compute_hankel" /\ ret.exc = ""
    /\ call.arg.kind = "tensor" /\ call.arg.ndim = 2
    /\ Len(self_data.val) = Len(call.arg.val) - n_delays * delay_interval
    /\ Len(self_data.val) >= 2

====
